---- MODULE Spec2Model ----
(***************************************************************************)
(* Model of tools/database_sync.py: the synchronisation of a local         *)
(* PostgreSQL database and a remote Neon database by DatabaseSyncer.       *)
(*                                                                         *)
(* A database is a function from table names to table states; a table      *)
(* state records whether the table exists, whether it carries the          *)
(* constraints the application schema declares (primary key, foreign key,  *)
(* unique column) and the bag of its rows.  A row has its first column     *)
(* (id) and one further column (val): for information_infostocks val is    *)
(* key_type_id, the foreign key to information_infostockstype.id; for      *)
(* information_infostockstype val is typename, declared unique.  The       *)
(* association table information_information_tags has no id column: its    *)
(* row is (information_id, infotag_id), held in the same two fields, and    *)
(* its primary key is the pair.  archive_notes and stocks_watchlist stand   *)
(* for tables of the catalog that the dependency list does not name.        *)
(***************************************************************************)
EXTENDS Integers, Sequences, FiniteSets, Bags, TLC

\* Bounds of the model.
MaxId == 3
MaxRows == 3
MaxRuns == 2
MaxColumns == 2

Endpoints == {"Local", "Neon"}
Directions == {"smart-sync", "local-to-neon", "neon-to-local", "both"}

Ids == 1..MaxId
Rows == [id : Ids, val : Ids]

\* The tables of the catalog that the model carries, in the order the
\* catalog query returns them (ORDER BY table_name).
TableNames ==
    << "archive_notes", "information_information_tags",
       "information_infostocks", "information_infostockstype",
       "stocks_watchlist" >>

\* The tables with which the runs on application data are populated.
CoreTables == {"information_infostocks", "information_infostockstype"}

RECURSIVE SeqToSet(_)
SeqToSet(s) == IF s = <<>> THEN {} ELSE {Head(s)} \cup SeqToSet(Tail(s))

Tables == SeqToSet(TableNames)

\* The fixed list of get_ordered_table_list.
dependency_order ==
    << "information_infosource", "information_infotag", "notes_notestypes",
       "notes_notestag", "stocks_stocktypes", "stocks_stockstatus",
       "stocks_stocktags", "stocks_stock", "stocks_stockaccount",
       "stocktypes", "stockstatus", "stocktags",
       "information_information", "notes_notes", "stocks_stocktrans",
       "information_information_tags", "information_infosourcemap",
       "information_infotagsourcemap", "information_tags",
       "notes_notestagtypemap", "information_infostocks",
       "information_infostockstype",
       "information_comment", "notes_update" >>

\* The foreign keys the application schema declares: <<child, parent>>.
ForeignKeys ==
    { <<"information_information_tags", "information_information">>,
      <<"information_information_tags", "information_infotag">>,
      <<"stocks_stocktrans", "stocks_stock">>,
      <<"stocks_stocktrans", "stocks_stockaccount">>,
      <<"information_infosourcemap", "information_infosource">>,
      <<"information_information", "information_infosource">>,
      <<"information_comment", "information_information">>,
      <<"information_infostocks", "stocks_stock">>,
      <<"information_infostocks", "information_information">>,
      <<"information_infostocks", "information_infostockstype">>,
      <<"notes_notes", "notes_notestypes">>,
      <<"notes_notes", "notes_notestag">>,
      <<"notes_update", "notes_notes">> }

\* The column list of a table (information_schema.columns).
Columns(t) == IF t = "information_information_tags"
              THEN <<"information_id", "infotag_id">>
              ELSE <<"id", "val">>

\* The table the val column of t refers to, for the tables of the model.
Parents(t) == {fk[2] : fk \in {k \in ForeignKeys : k[1] = t /\ k[2] \in Tables}}

\* Tables whose val column is declared unique (typename).
UniqueVal(t) == t = "information_infostockstype"

Absent == [exists |-> FALSE, constraints |-> FALSE, rows |-> EmptyBag]

IdsOf(T) == {r.id : r \in BagToSet(T.rows)}
ValsOf(T) == {r.val : r \in BagToSet(T.rows)}

VARIABLES
    direction,      \* DatabaseSyncer.direction
    pc,             \* position in main / run_sync
    conn,           \* state of each DatabaseConnection
    db,             \* committed contents of each database
    txn,            \* contents as seen by each connection's transaction
    sync_stats,     \* DatabaseSyncer.sync_stats counters
    success,        \* local variable of run_sync
    result,         \* value returned by run_sync
    pi,             \* index of the phase being executed
    table_names,    \* ordered table list of the phase
    ti,             \* index of the table being synchronised
    data,           \* rows handed to insert_data
    ri,             \* index of the row being written
    upsert,         \* insert_data chose the ON CONFLICT statement
    counts,         \* inserted_count and error_count of insert_data
    outcomes,       \* result of execute_update for each row written so far
    run,            \* number of the invocation
    pre,            \* databases when the invocation started
    prev,           \* direction of the previous invocation, and whether it connected
    log,            \* what the invocation did, in order
    env,            \* the required remote variables that are set
    stdout,         \* the lines the process printed to standard output
    table_structure, \* the column descriptions handed to the DDL builder
    create_query,   \* the column definitions and sequences it built
    caller          \* run_database_sync of main.py, when it started the script

vars == <<direction, pc, conn, db, txn, sync_stats, success, result, pi,
          table_names, ti, data, ri, upsert, counts, outcomes, run, pre, prev,
          log, env, stdout, table_structure, create_query, caller>>

----------------------------------------------------------------------------
\* DatabaseConnection

\* A connection is "none" before connect and after a failed connect, "open"
\* after connect, "aborted" while its transaction is in aborted state (the
\* server rejects every statement until a rollback), "lost" once the server
\* or the network is gone, "closed" after disconnect.

\* execute_query: the rows of a catalog or data query, empty on failure.
Usable(e) == conn[e] = "open"

\* The connection after a statement failed on it.
failed(c) == IF c = "open" THEN "aborted" ELSE c

\* connection.rollback(): ends an aborted transaction; raises, and is
\* ignored, on a connection that is lost.
rollback(c) == IF c = "aborted" THEN "open" ELSE c

\* Mutant of execute_update: the statement is executed but not committed.
execute_update_no_commit(e, applied) ==
    IF Usable(e) /\ applied.ok
    THEN [ok |-> TRUE, txn |-> applied.tables, db |-> db[e], conn |-> conn[e]]
    ELSE [ok |-> FALSE, txn |-> db[e], db |-> db[e],
          conn |-> rollback(failed(conn[e]))]

\* Mutant of execute_update: the except branch returns without rollback.
execute_update_no_rollback(e, applied) ==
    IF Usable(e) /\ applied.ok
    THEN [ok |-> TRUE, txn |-> applied.tables, db |-> applied.tables,
          conn |-> conn[e]]
    ELSE [ok |-> FALSE, txn |-> db[e], db |-> db[e], conn |-> failed(conn[e])]

\* Outcome of execute_update on endpoint e for a statement whose effect on
\* the transaction's view is applied: commit on success, rollback on error.
execute_update(e, applied) ==
    IF Usable(e) /\ applied.ok
    THEN [ok |-> TRUE, txn |-> applied.tables, db |-> applied.tables,
          conn |-> conn[e]]
    ELSE [ok |-> FALSE, txn |-> db[e], db |-> db[e],
          conn |-> rollback(failed(conn[e]))]

----------------------------------------------------------------------------
\* Statements

\* CREATE TABLE t (columns): no constraint is part of the statement.
ApplyCreate(view, t) ==
    IF view[t].exists
    THEN [ok |-> FALSE, tables |-> view]
    ELSE [ok |-> TRUE,
          tables |-> [view EXCEPT ![t] = [exists |-> TRUE, constraints |-> FALSE,
                                          rows |-> EmptyBag]]]

\* The row violates a declared constraint of table t other than the key.
Violates(view, t, row, others) ==
    /\ view[t].constraints
    /\ \/ \E p \in Parents(t) : row.val \notin IdsOf(view[p])
       \/ UniqueVal(t) /\ row.val \in {r.val : r \in BagToSet(others)}

SameId(T, row) == {r \in BagToSet(T.rows) : r.id = row.id}

\* The rows of table t that have the primary key of row: the id, or both
\* columns of the association table.
SameKey(t, T, row) ==
    IF Columns(t)[1] = "id" THEN SameId(T, row)
    ELSE {r \in BagToSet(T.rows) : r = row}

\* Mutant of ApplyInsert: the table is emptied before the row is inserted.
ApplyInsertReplacing(view, t, row, onConflict) ==
    IF ~view[t].exists THEN [ok |-> FALSE, tables |-> view]
    ELSE [ok |-> TRUE, tables |-> [view EXCEPT ![t].rows = SetToBag({row})]]

\* INSERT INTO t ... VALUES row [ON CONFLICT (id) DO UPDATE SET val = row.val]
ApplyInsert(view, t, row, onConflict) ==
    LET T == view[t]
        old == SameId(T, row)
        rest == [r \in (DOMAIN T.rows) \ old |-> T.rows[r]]
        fail == [ok |-> FALSE, tables |-> view]
        put(B) == [ok |-> TRUE, tables |-> [view EXCEPT ![t].rows = B]]
    IN  IF ~T.exists THEN fail
        ELSE IF onConflict
        THEN IF ~T.constraints THEN fail
             ELSE IF Violates(view, t, row, rest) THEN fail
             ELSE put(rest (+) SetToBag({row}))
        ELSE IF T.constraints /\ SameKey(t, T, row) # {} THEN fail
             ELSE IF Violates(view, t, row, T.rows) THEN fail
             ELSE put(T.rows (+) SetToBag({row}))

----------------------------------------------------------------------------
\* DatabaseSyncer: queries.  V is the view of every connection's transaction
\* at the time of the call (txn, or txn after a statement of the same step).

\* get_table_list + execute_query: the catalog's tables, by name.
available_tables(e, V) ==
    IF Usable(e) THEN SelectSeq(TableNames, LAMBDA t : V[e][t].exists) ELSE <<>>

table_exists(t, e, V) == Usable(e) /\ V[e][t].exists

get_table_structure(t, e, V) ==
    IF Usable(e) /\ V[e][t].exists THEN Columns(t) ELSE <<>>

\* Mutant of has_id_column: the first column is taken for the id.
has_id_column_first(structure) == structure # <<>>

has_id_column(structure) == \E i \in DOMAIN structure : structure[i] = "id"

\* Mutant of has_primary_key: every table that exists is taken to have one.
has_primary_key_assumed(t, e, V) == Usable(e) /\ V[e][t].exists

has_primary_key(t, e, V) == Usable(e) /\ V[e][t].exists /\ V[e][t].constraints

\* Mutant of get_ordered_table_list: the tables are left in the order of
\* the catalog query.
get_ordered_table_list_discovery(e, V) ==
    SelectSeq(available_tables(e, V), LAMBDA t : table_exists(t, e, V))

get_ordered_table_list(e, V) ==
    LET available == available_tables(e, V)
        listed == SelectSeq(dependency_order, LAMBDA t : t \in SeqToSet(available))
        ordered_tables ==
            listed \o SelectSeq(available, LAMBDA t : t \notin SeqToSet(listed))
    IN  SelectSeq(ordered_tables, LAMBDA t : table_exists(t, e, V))

\* The orders in which SELECT * ... ORDER BY <first column> can return the
\* rows of bag B: ascending, rows of equal key in any order.
RECURSIVE SortedSeqs(_)
SortedSeqs(B) ==
    IF DOMAIN B = {} THEN {<<>>}
    ELSE LET least == {r \in DOMAIN B : \A q \in DOMAIN B : r.id <= q.id}
         IN  UNION { {<<r>> \o s : s \in SortedSeqs(B (-) SetToBag({r}))}
                     : r \in least }

\* get_table_data: the set of row lists the query can return.
get_table_data(t, e, V) ==
    LET structure == get_table_structure(t, e, V)
    IN  IF structure = <<>> THEN {<<>>}
        ELSE IF ~Usable(e) THEN {<<>>}
        ELSE SortedSeqs(V[e][t].rows)

\* Mutant of get_new_records: the source rows are not filtered by the
\* target's ids.
get_new_records_unfiltered(t, s, g, V) ==
    LET structure == get_table_structure(t, s, V)
    IN  IF structure = <<>> THEN {<<>>}
        ELSE IF ~has_id_column(structure) THEN {<<>>}
        ELSE IF ~table_exists(t, s, V) THEN {<<>>}
        ELSE get_table_data(t, s, V)

\* get_new_records: the set of row lists it can return.
get_new_records(t, s, g, V) ==
    LET structure == get_table_structure(t, s, V)
    IN  IF structure = <<>> THEN {<<>>}
        ELSE IF ~has_id_column(structure) THEN {<<>>}
        ELSE IF ~table_exists(t, s, V) \/ ~table_exists(t, g, V)
        THEN IF table_exists(t, s, V) THEN get_table_data(t, s, V) ELSE {<<>>}
        ELSE LET target_ids == IF Usable(g) THEN IdsOf(V[g][t]) ELSE {}
             IN  { SelectSeq(source_records, LAMBDA r : r.id \notin target_ids)
                   : source_records \in get_table_data(t, s, V) }

\* The column descriptions of information_schema.columns that the DDL
\* builder is applied to: column_default "" stands for None.
ColumnNames == {"id", "val"}
DataTypes == {"integer", "bigint", "text"}
ColumnDefaults ==
    {"", "0", "nextval('t_id_seq'::regclass)", "nextval(('t_id_seq'::text)::regclass)"}
ColumnDescriptions ==
    [column_name : ColumnNames, data_type : DataTypes,
     is_nullable : {"YES", "NO"}, column_default : ColumnDefaults]

\* "nextval" in col["column_default"]
ContainsNextval(default) ==
    default \in {"nextval('t_id_seq'::regclass)", "nextval(('t_id_seq'::text)::regclass)"}

\* re.search(r"nextval\('([^']+)'", default): group 1, "" when no match.
seq_match(default) ==
    IF default = "nextval('t_id_seq'::regclass)" THEN "t_id_seq" ELSE ""

\* "integer" in col["data_type"]
ContainsInteger(data_type) == data_type = "integer"

\* create_table_if_not_exists: the definition built for one column; the
\* text is "name" type [NOT NULL] [DEFAULT default].
col_def(col) ==
    LET plain == [column_name |-> col.column_name, type |-> col.data_type,
                  not_null |-> FALSE, default |-> ""]
        declared == [plain EXCEPT !.not_null = (col.is_nullable = "NO")]
    IN  IF col.column_default # "" /\ ContainsNextval(col.column_default)
        THEN IF seq_match(col.column_default) # ""
             THEN IF ContainsInteger(col.data_type)
                  THEN [plain EXCEPT !.type = "SERIAL"]
                  ELSE plain
             ELSE [declared EXCEPT !.default = col.column_default]
        ELSE IF col.column_default # ""
        THEN [declared EXCEPT !.default = col.column_default]
        ELSE declared

\* create_table_if_not_exists: columns and sequences_to_create.
build_create_query(structure) ==
    [columns |-> [i \in DOMAIN structure |-> col_def(structure[i])],
     sequences_to_create |->
         LET withseq == SelectSeq(structure, LAMBDA col :
                            /\ col.column_default # ""
                            /\ ContainsNextval(col.column_default)
                            /\ seq_match(col.column_default) # "")
         IN  [i \in DOMAIN withseq |-> seq_match(withseq[i].column_default)]]

\* create_table_if_not_exists: outcome of execute_update, or no statement
\* at all when the table is found.
create_table_if_not_exists(t, structure, g, V) ==
    IF table_exists(t, g, V)
    THEN [ok |-> TRUE, txn |-> V[g], db |-> db[g], conn |-> conn[g]]
    ELSE execute_update(g, ApplyCreate(V[g], t))

\* insert_data: the statement it chooses for the target table.
UseUpsert(t, g, V) ==
    LET structure == get_table_structure(t, g, V)
    IN  /\ structure # <<>>
        /\ has_id_column(structure)
        /\ has_primary_key(t, g, V)

----------------------------------------------------------------------------
\* Mutant of Phase: the two connections are passed in the other order.
PhaseReversed(k, s, g) == [kind |-> k, source |-> g, target |-> s]

\* run_sync: the phases a direction runs, in order.
Phase(k, s, g) == [kind |-> k, source |-> s, target |-> g]

\* Mutant of Phases: smart-sync pushes before it pulls.
PhasesSwapped(d) ==
    (IF d = "smart-sync"
     THEN <<Phase("full", "Local", "Neon"), Phase("new", "Neon", "Local")>>
     ELSE IF d \in {"local-to-neon", "both"}
     THEN <<Phase("full", "Local", "Neon")>>
     ELSE <<>>)
    \o (IF d \in {"neon-to-local", "both"}
        THEN <<Phase("full", "Neon", "Local")>>
        ELSE <<>>)

\* Mutant of Phases: the second test of the direction is an elif, so both
\* runs the push only.
PhasesBothOnce(d) ==
    IF d = "smart-sync"
    THEN <<Phase("new", "Neon", "Local"), Phase("full", "Local", "Neon")>>
    ELSE IF d \in {"local-to-neon", "both"}
    THEN <<Phase("full", "Local", "Neon")>>
    ELSE IF d \in {"neon-to-local", "both"}
    THEN <<Phase("full", "Neon", "Local")>>
    ELSE <<>>

Phases(d) ==
    (IF d = "smart-sync"
     THEN <<Phase("new", "Neon", "Local"), Phase("full", "Local", "Neon")>>
     ELSE IF d \in {"local-to-neon", "both"}
     THEN <<Phase("full", "Local", "Neon")>>
     ELSE <<>>)
    \o (IF d \in {"neon-to-local", "both"}
        THEN <<Phase("full", "Neon", "Local")>>
        ELSE <<>>)

NoStats == [tables_synced |-> 0, records_synced |-> 0, errors |-> 0]
NoCounts == [inserted_count |-> 0, error_count |-> 0]
NoQuery == [columns |-> <<>>, sequences_to_create |-> <<>>]

\* The script was started from the command line, not by run_database_sync.
NoCaller == [environment |-> "local", script |-> TRUE, at |-> "none",
             outcome |-> "", timeout |-> 0]

----------------------------------------------------------------------------
\* Initial databases: every table that exists was created by the
\* application, so it carries its constraints and satisfies them.
TableContents ==
    { S \in SUBSET Rows :
        /\ Cardinality(S) <= MaxRows
        /\ \A r, q \in S : r.id = q.id => r = q }

\* Number of rows of a database.
RECURSIVE RowCount(_, _)
RowCount(d, T) ==
    IF T = {} THEN 0
    ELSE LET t == CHOOSE x \in T : TRUE
         IN  BagCardinality(d[t].rows) + RowCount(d, T \ {t})

Created(S) == [exists |-> TRUE, constraints |-> TRUE, rows |-> SetToBag(S)]

Consistent(d) ==
    \A t \in Tables :
        d[t].exists =>
            /\ \A p \in Parents(t) :
                   d[p].exists /\ ValsOf(d[t]) \subseteq IdsOf(d[p])
            /\ UniqueVal(t) =>
                   \A r, q \in BagToSet(d[t].rows) : r.val = q.val => r = q

\* A database that holds the tables of d and no other table.
Extend(d) == [t \in Tables |-> IF t \in DOMAIN d THEN d[t] ELSE Absent]

\* The initial databases, each with its number of rows.
SizedDatabases ==
    { <<d, RowCount(d, Tables)>> :
        d \in { x \in { Extend(c) : c \in [CoreTables ->
                              {Absent} \cup {Created(S) : S \in TableContents}] } :
                  Consistent(x) } }

\* The states of a table outside CoreTables, of fewer than MaxRows rows.
WideStates(t) ==
    {Absent} \cup
    { Created(S) : S \in { X \in SUBSET Rows :
        /\ Cardinality(X) < MaxRows
        /\ Columns(t)[1] = "id" => \A r, q \in X : r.id = q.id => r = q } }

\* The initial databases that hold tables outside CoreTables only.
WideDatabases ==
    { <<d, RowCount(d, Tables)>> :
        d \in { [t \in Tables |->
                    IF t = "archive_notes" THEN a
                    ELSE IF t = "information_information_tags" THEN b
                    ELSE IF t = "stocks_watchlist" THEN c
                    ELSE Absent] :
                 a \in WideStates("archive_notes"),
                 b \in WideStates("information_information_tags"),
                 c \in WideStates("stocks_watchlist") } }

\* The variables get_neon_config requires.
RequiredEnv == {"NEON_HOST", "NEON_USER", "NEON_PASSWORD", "NEON_DATABASE_NAME"}

\* The fields of a DatabaseSyncer after __init__, in a process that has
\* printed nothing.
Constructed ==
    /\ conn = [e \in Endpoints |-> "none"]
    /\ txn = db
    /\ sync_stats = NoStats
    /\ success = TRUE
    /\ result = FALSE
    /\ pi = 1
    /\ table_names = <<>>
    /\ ti = 1
    /\ data = <<>>
    /\ ri = 1
    /\ upsert = FALSE
    /\ counts = NoCounts
    /\ outcomes = <<>>
    /\ run = 1
    /\ pre = db
    /\ prev = [direction |-> "", connected |-> FALSE]
    /\ log = <<>>
    /\ stdout = <<>>
    /\ table_structure = <<>>
    /\ create_query = NoQuery

Init ==
    /\ \E L, N \in SizedDatabases :
         /\ L[2] + N[2] <= MaxRows
         /\ db = [e \in Endpoints |-> IF e = "Local" THEN L[1] ELSE N[1]]
    /\ direction \in Directions
    /\ pc = "connect"
    /\ env = RequiredEnv
    /\ Constructed
    /\ caller = NoCaller

----------------------------------------------------------------------------
\* Mutant of ConnectFailed: the run is given up only when both calls failed.
ConnectFailedBoth(local_connected, neon_connected) ==
    ~local_connected /\ ~neon_connected

\* run_sync: the test after the two connect calls.
ConnectFailed(local_connected, neon_connected) ==
    ~local_connected \/ ~neon_connected

\* run_sync: connect to both databases; return False when one fails.
connect ==
    /\ pc = "connect"
    /\ \E local_connected, neon_connected \in BOOLEAN :
        /\ conn' = [conn EXCEPT !["Local"] = IF local_connected THEN "open" ELSE "none",
                                !["Neon"] = IF neon_connected THEN "open" ELSE "none"]
        /\ IF ConnectFailed(local_connected, neon_connected)
           THEN pc' = "done" /\ result' = FALSE
           ELSE pc' = "phase" /\ result' = result
    /\ success' = TRUE
    /\ pi' = 1
    /\ UNCHANGED <<direction, db, txn, sync_stats, table_names, ti, data, ri,
                   upsert, counts, outcomes, run, pre, prev, log, env, caller, table_structure, create_query, stdout>>

CurPhase == Phases(direction)[pi]

\* Mutant of start_phase: a phase that finds no table ends the run.
start_phase_stops ==
    /\ pc = "phase"
    /\ pi <= Len(Phases(direction))
    /\ LET names == get_ordered_table_list(CurPhase.source, txn)
       IN  /\ table_names' = names
           /\ IF names = <<>>
              THEN /\ success' = FALSE
                   /\ pi' = Len(Phases(direction)) + 1
                   /\ pc' = "phase"
              ELSE success' = success /\ pi' = pi /\ pc' = "table"
    /\ ti' = 1
    /\ log' = Append(log, <<pi, "">>)
    /\ UNCHANGED <<direction, conn, db, txn, sync_stats, result, data, ri,
                   upsert, counts, outcomes, run, pre, prev, env, caller, table_structure, create_query, stdout>>

\* sync_database / sync_new_records_from_database up to the table loop.
start_phase ==
    /\ pc = "phase"
    /\ pi <= Len(Phases(direction))
    /\ LET names == get_ordered_table_list(CurPhase.source, txn)
       IN  /\ table_names' = names
           /\ IF names = <<>>
              THEN success' = FALSE /\ pi' = pi + 1 /\ pc' = "phase"
              ELSE success' = success /\ pi' = pi /\ pc' = "table"
    /\ ti' = 1
    /\ log' = Append(log, <<pi, "">>)
    /\ UNCHANGED <<direction, conn, db, txn, sync_stats, result, data, ri,
                   upsert, counts, outcomes, run, pre, prev, env, caller, table_structure, create_query, stdout>>

\* The table loop of a phase is exhausted: the phase returns True.
end_phase ==
    /\ pc = "table"
    /\ ti > Len(table_names)
    /\ pc' = "phase"
    /\ pi' = pi + 1
    /\ UNCHANGED <<direction, conn, db, txn, sync_stats, success, result,
                   table_names, ti, data, ri, upsert, counts, outcomes, run, pre,
                   prev, log, env, caller, table_structure, create_query, stdout>>

\* Mutant of TableReturns: the table loop breaks at the first table whose
\* synchronisation returned False.
TableReturnsBreaks(ok, errs) ==
    /\ sync_stats' =
         [sync_stats EXCEPT
            !.tables_synced = @ + (IF ok /\ CurPhase.kind = "full" THEN 1 ELSE 0),
            !.errors = @ + errs]
    /\ ti' = IF ok THEN ti + 1 ELSE Len(table_names) + 1
    /\ pc' = "table"
    /\ UNCHANGED <<data, ri, upsert, counts, outcomes>>

\* Mutant of TableReturns: after a table whose synchronisation returned
\* False the loop passes over the next table.
TableReturnsSkips(ok, errs) ==
    /\ sync_stats' =
         [sync_stats EXCEPT
            !.tables_synced = @ + (IF ok /\ CurPhase.kind = "full" THEN 1 ELSE 0),
            !.errors = @ + errs]
    /\ ti' = IF ok THEN ti + 1 ELSE ti + 2
    /\ pc' = "table"
    /\ UNCHANGED <<data, ri, upsert, counts, outcomes>>

\* The table's synchronisation returned without calling insert_data on rows.
TableReturns(ok, errs) ==
    /\ sync_stats' =
         [sync_stats EXCEPT
            !.tables_synced = @ + (IF ok /\ CurPhase.kind = "full" THEN 1 ELSE 0),
            !.errors = @ + errs]
    /\ ti' = ti + 1
    /\ pc' = "table"
    /\ UNCHANGED <<data, ri, upsert, counts, outcomes>>

\* insert_data starts on a non-empty row list.
InsertStarts(t, g, V, d) ==
    /\ data' = d
    /\ ri' = 1
    /\ upsert' = UseUpsert(t, g, V)
    /\ counts' = NoCounts
    /\ outcomes' = <<>>
    /\ pc' = "rows"
    /\ UNCHANGED <<sync_stats, ti>>

\* Mutant of skip_missing: a table missing at the source is an error.
skip_missing_as_error == [ok |-> FALSE, errs |-> 1]

\* sync_table, sync_new_records_only: what the call returns and counts when
\* the table does not exist at the source ("not an error, just skip").
skip_missing == [ok |-> TRUE, errs |-> 0]

\* sync_table up to the row loop of insert_data.
sync_table ==
    /\ pc = "table"
    /\ ti <= Len(table_names)
    /\ CurPhase.kind = "full"
    /\ LET t == table_names[ti]
           s == CurPhase.source
           g == CurPhase.target
           structure == get_table_structure(t, s, txn)
           created == create_table_if_not_exists(t, structure, g, txn)
           V == [txn EXCEPT ![g] = created.txn]
       IN  IF ~table_exists(t, s, txn)
           THEN /\ TableReturns(skip_missing.ok, skip_missing.errs)
                /\ UNCHANGED <<conn, db, txn>>
           ELSE IF structure = <<>>
           THEN TableReturns(FALSE, 1) /\ UNCHANGED <<conn, db, txn>>
           ELSE /\ db' = [db EXCEPT ![g] = created.db]
                /\ txn' = V
                /\ conn' = [conn EXCEPT ![g] = created.conn]
                /\ IF ~created.ok
                   THEN TableReturns(FALSE, 1)
                   ELSE \E d \in get_table_data(t, s, V) :
                          IF d = <<>>
                          THEN TableReturns(TRUE, 0)
                          ELSE InsertStarts(t, g, V, d)
    /\ log' = Append(log, <<pi, table_names[ti]>>)
    /\ UNCHANGED <<direction, success, result, pi, table_names, run, pre, prev,
                   env, caller, table_structure, create_query, stdout>>

\* One iteration of the loop of sync_new_records_from_database up to the
\* call of sync_new_records_only: get_new_records decides whether the
\* table is synchronised at all.
check_new_records ==
    /\ pc = "table"
    /\ ti <= Len(table_names)
    /\ CurPhase.kind = "new"
    /\ \E new_records \in get_new_records(table_names[ti], CurPhase.source,
                                          CurPhase.target, txn) :
         IF new_records = <<>>
         THEN ti' = ti + 1 /\ pc' = "table"
         ELSE ti' = ti /\ pc' = "new"
    /\ log' = Append(log, <<pi, table_names[ti]>>)
    /\ UNCHANGED <<direction, conn, db, txn, sync_stats, success, result, pi,
                   table_names, data, ri, upsert, counts, outcomes, run, pre,
                   prev, env, caller, table_structure, create_query, stdout>>

\* sync_new_records_only up to the row loop of insert_data.
sync_new_records_only ==
    /\ pc = "new"
    /\ LET t == table_names[ti]
           s == CurPhase.source
           g == CurPhase.target
           structure == get_table_structure(t, s, txn)
           created == create_table_if_not_exists(t, structure, g, txn)
           V == [txn EXCEPT ![g] = created.txn]
       IN  IF ~table_exists(t, s, txn)
           THEN /\ TableReturns(skip_missing.ok, skip_missing.errs)
                /\ UNCHANGED <<conn, db, txn>>
           ELSE IF structure = <<>>
           THEN TableReturns(FALSE, 1) /\ UNCHANGED <<conn, db, txn>>
           ELSE /\ db' = [db EXCEPT ![g] = created.db]
                /\ txn' = V
                /\ conn' = [conn EXCEPT ![g] = created.conn]
                /\ IF ~created.ok
                   THEN TableReturns(FALSE, 1)
                   ELSE \E d \in get_new_records(t, s, g, V) :
                          IF d = <<>>
                          THEN TableReturns(TRUE, 0)
                          ELSE InsertStarts(t, g, V, d)
    /\ UNCHANGED <<direction, success, result, pi, table_names, run, pre, prev,
                   log, env, caller, table_structure, create_query, stdout>>

\* Mutant of upsert_query: ON CONFLICT (id) DO NOTHING.
upsert_query_do_nothing(view, t, row, onConflict) ==
    IF onConflict /\ view[t].exists /\ view[t].constraints
       /\ SameId(view[t], row) # {}
    THEN [ok |-> TRUE, tables |-> view]
    ELSE ApplyInsert(view, t, row, onConflict)

\* Mutant of upsert_query: the statement has no ON CONFLICT clause.
upsert_query_plain(view, t, row, onConflict) == ApplyInsert(view, t, row, FALSE)

\* insert_data: the statement built for the rows, applied to one row.
upsert_query(view, t, row, onConflict) == ApplyInsert(view, t, row, onConflict)

\* Mutant of insert_row: the first failed row ends the loop.
insert_row_aborts ==
    /\ pc = "rows"
    /\ ri <= Len(data)
    /\ LET g == CurPhase.target
           r == execute_update(g, upsert_query(txn[g], table_names[ti], data[ri], upsert))
       IN  /\ db' = [db EXCEPT ![g] = r.db]
           /\ txn' = [txn EXCEPT ![g] = r.txn]
           /\ conn' = [conn EXCEPT ![g] = r.conn]
           /\ counts' = IF r.ok
                        THEN [counts EXCEPT !.inserted_count = @ + 1]
                        ELSE [counts EXCEPT !.error_count = @ + 1]
           /\ outcomes' = Append(outcomes, r.ok)
           /\ ri' = IF r.ok THEN ri + 1 ELSE Len(data) + 1
    /\ UNCHANGED <<direction, pc, sync_stats, success, result, pi,
                   table_names, ti, data, upsert, run, pre, prev, log, env, caller, table_structure, create_query,
                   stdout>>

\* insert_data: one execute_update of the row loop.
insert_row ==
    /\ pc = "rows"
    /\ ri <= Len(data)
    /\ LET g == CurPhase.target
           r == execute_update(g, upsert_query(txn[g], table_names[ti], data[ri], upsert))
       IN  /\ db' = [db EXCEPT ![g] = r.db]
           /\ txn' = [txn EXCEPT ![g] = r.txn]
           /\ conn' = [conn EXCEPT ![g] = r.conn]
           /\ counts' = IF r.ok
                        THEN [counts EXCEPT !.inserted_count = @ + 1]
                        ELSE [counts EXCEPT !.error_count = @ + 1]
           /\ outcomes' = Append(outcomes, r.ok)
    /\ ri' = ri + 1
    /\ UNCHANGED <<direction, pc, sync_stats, success, result, pi,
                   table_names, ti, data, upsert, run, pre, prev, log, env, caller, table_structure, create_query,
                   stdout>>

\* Mutant of finish_table: the failed rows are logged but not counted.
finish_table_drops_errors ==
    /\ pc = "rows"
    /\ ri > Len(data)
    /\ sync_stats' =
         [sync_stats EXCEPT
            !.records_synced = @ + counts.inserted_count,
            !.tables_synced = @ + (IF CurPhase.kind = "full" THEN 1 ELSE 0)]
    /\ ti' = ti + 1
    /\ pc' = "table"
    /\ UNCHANGED <<direction, conn, db, txn, success, result, pi, table_names,
                   data, ri, upsert, counts, outcomes, run, pre, prev, log, env, caller,
                   table_structure, create_query, stdout>>

\* insert_data returns: the counts are added to sync_stats.
finish_table ==
    /\ pc = "rows"
    /\ ri > Len(data)
    /\ sync_stats' =
         [sync_stats EXCEPT
            !.records_synced = @ + counts.inserted_count,
            !.errors = @ + counts.error_count,
            !.tables_synced = @ + (IF CurPhase.kind = "full" THEN 1 ELSE 0)]
    /\ ti' = ti + 1
    /\ pc' = "table"
    /\ UNCHANGED <<direction, conn, db, txn, success, result, pi, table_names,
                   data, ri, upsert, counts, outcomes, run, pre, prev, log, env, caller, table_structure, create_query,
                   stdout>>

\* DatabaseConnection.disconnect: an open transaction is discarded.
disconnect(c) == IF c \in {"open", "aborted", "lost"} THEN "closed" ELSE c

\* run_sync: the line printed to the console.
status_line(s) == IF s THEN "Database sync completed successfully."
                  ELSE "Database sync failed."

\* Mutant of finish: a run that counted errors returns False.
finish_fails_on_errors ==
    /\ pc = "phase"
    /\ pi > Len(Phases(direction))
    /\ stdout' = Append(stdout, status_line(success /\ sync_stats.errors = 0))
    /\ result' = (success /\ sync_stats.errors = 0)
    /\ conn' = [e \in Endpoints |-> disconnect(conn[e])]
    /\ txn' = db
    /\ pc' = "done"
    /\ UNCHANGED <<direction, db, sync_stats, success, pi, table_names, ti,
                   data, ri, upsert, counts, outcomes, run, pre, prev, log, env, caller, table_structure, create_query>>

\* run_sync: summary, print, return success; finally: disconnect both.
finish ==
    /\ pc = "phase"
    /\ pi > Len(Phases(direction))
    /\ stdout' = Append(stdout, status_line(success))
    /\ result' = success
    /\ conn' = [e \in Endpoints |-> disconnect(conn[e])]
    /\ txn' = db
    /\ pc' = "done"
    /\ UNCHANGED <<direction, db, sync_stats, success, pi, table_names, ti,
                   data, ri, upsert, counts, outcomes, run, pre, prev, log, env, caller, table_structure, create_query>>

\* The variables a new call of run_sync starts from, whoever makes it.
Restart ==
    /\ pc = "done"
    /\ run < MaxRuns
    /\ direction' = direction
    /\ conn' = [e \in Endpoints |-> "none"]
    /\ txn' = db
    /\ success' = TRUE
    /\ result' = FALSE
    /\ pi' = 1
    /\ table_names' = <<>>
    /\ ti' = 1
    /\ data' = <<>>
    /\ ri' = 1
    /\ upsert' = FALSE
    /\ counts' = NoCounts
    /\ outcomes' = <<>>
    /\ run' = run + 1
    /\ pre' = db
    /\ prev' = [direction |-> direction,
                connected |-> \A e \in Endpoints : conn[e] # "none"]
    /\ log' = <<>>
    /\ pc' = "connect"
    /\ UNCHANGED <<db, env, caller, table_structure, create_query>>

\* main: the script is invoked again with the same arguments; a new
\* DatabaseSyncer is constructed.
main ==
    /\ Restart
    /\ sync_stats' = NoStats
    /\ stdout' = <<>>

\* The steps of one call of run_sync.
run_sync ==
    \/ connect
    \/ start_phase
    \/ end_phase
    \/ sync_table
    \/ check_new_records
    \/ sync_new_records_only
    \/ insert_row
    \/ finish_table
    \/ finish

Next ==
    \/ run_sync
    \/ main

Spec == Init /\ [][Next]_vars

----------------------------------------------------------------------------
\* One run of the program with required variables that may not be set, on
\* the initial databases of fewer than MaxRows - 1 rows.
InitConfig ==
    /\ \E L, N \in SizedDatabases :
         /\ L[2] + N[2] < MaxRows - 1
         /\ db = [e \in Endpoints |-> IF e = "Local" THEN L[1] ELSE N[1]]
    /\ direction \in Directions
    /\ pc = "start"
    /\ env \in SUBSET RequiredEnv
    /\ Constructed
    /\ caller = NoCaller

\* Mutant of get_neon_config: any() in place of all().
get_neon_config_any(e) ==
    IF e \cap RequiredEnv # {} THEN "config" ELSE "ValueError"

\* get_neon_config: raises ValueError unless the four variables are set.
get_neon_config(e) ==
    IF RequiredEnv \subseteq e THEN "config" ELSE "ValueError"

\* main: DatabaseSyncer(args.direction); __init__ calls get_neon_config and
\* nothing catches what it raises.
construct ==
    /\ pc = "start"
    /\ pc' = IF get_neon_config(env) = "ValueError" THEN "aborted" ELSE "connect"
    /\ UNCHANGED <<direction, conn, db, txn, sync_stats, success, result, pi,
                   table_names, ti, data, ri, upsert, counts, outcomes, run,
                   pre, prev, log, env, caller, table_structure, create_query, stdout>>

NextConfig ==
    \/ construct
    \/ run_sync

SpecConfig == InitConfig /\ [][NextConfig]_vars

----------------------------------------------------------------------------
\* One run of the program in which a connection may be lost while a phase
\* runs, on the initial databases of fewer than MaxRows rows.
InitEnv ==
    /\ \E L, N \in SizedDatabases :
         /\ L[2] + N[2] < MaxRows
         /\ db = [e \in Endpoints |-> IF e = "Local" THEN L[1] ELSE N[1]]
    /\ direction \in Directions
    /\ pc = "connect"
    /\ env = RequiredEnv
    /\ Constructed
    /\ caller = NoCaller

\* The connection of an endpoint is lost while the phases run: from now
\* on execute_query returns [] and execute_update returns False on it.
lose_connection ==
    /\ pc \in {"phase", "table", "new", "rows"}
    /\ \E e \in Endpoints :
         /\ conn[e] = "open"
         /\ conn' = [conn EXCEPT ![e] = "lost"]
    /\ UNCHANGED <<direction, pc, db, txn, sync_stats, success, result, pi,
                   table_names, ti, data, ri, upsert, counts, outcomes, run,
                   pre, prev, log, env, caller, table_structure, create_query, stdout>>

\* The rows get_new_records returns when a read of the target inside it
\* fails on a usable connection (the existence check or SELECT id):
\* execute_query returns [], and every source row passes the filter.
get_new_records_read_fails(t, s, g, V) ==
    LET structure == get_table_structure(t, s, V)
    IN  IF structure = <<>> THEN {<<>>}
        ELSE IF ~has_id_column(structure) THEN {<<>>}
        ELSE get_table_data(t, s, V)

\* check_new_records with a failed read of the target.
check_new_records_read_fails ==
    /\ pc = "table"
    /\ ti <= Len(table_names)
    /\ CurPhase.kind = "new"
    /\ Usable(CurPhase.target)
    /\ \E new_records \in get_new_records_read_fails(table_names[ti],
                              CurPhase.source, CurPhase.target, txn) :
         IF new_records = <<>>
         THEN ti' = ti + 1 /\ pc' = "table"
         ELSE ti' = ti /\ pc' = "new"
    /\ log' = Append(log, <<pi, table_names[ti]>>)
    /\ UNCHANGED <<direction, conn, db, txn, sync_stats, success, result, pi,
                   table_names, data, ri, upsert, counts, outcomes, run, pre,
                   prev, env, caller, table_structure, create_query, stdout>>

\* sync_new_records_only with a failed read of the target inside its call
\* of get_new_records, after the target table was found or created.
sync_new_records_only_read_fails ==
    /\ pc = "new"
    /\ Usable(CurPhase.target)
    /\ table_exists(table_names[ti], CurPhase.source, txn)
    /\ LET t == table_names[ti]
           s == CurPhase.source
           g == CurPhase.target
           structure == get_table_structure(t, s, txn)
           created == create_table_if_not_exists(t, structure, g, txn)
           V == [txn EXCEPT ![g] = created.txn]
       IN  /\ db' = [db EXCEPT ![g] = created.db]
           /\ txn' = V
           /\ conn' = [conn EXCEPT ![g] = created.conn]
           /\ IF ~created.ok
              THEN TableReturns(FALSE, 1)
              ELSE \E d \in get_new_records_read_fails(t, s, g, V) :
                     IF d = <<>>
                     THEN TableReturns(TRUE, 0)
                     ELSE InsertStarts(t, g, V, d)
    /\ UNCHANGED <<direction, success, result, pi, table_names, run, pre, prev,
                   log, env, caller, table_structure, create_query, stdout>>

\* The source connection is lost inside sync_table or sync_new_records_only,
\* after table_exists found the table: get_table_structure returns [], the
\* call counts one error and returns False.
lose_source_in_table ==
    /\ \/ pc = "table" /\ ti <= Len(table_names) /\ CurPhase.kind = "full"
       \/ pc = "new"
    /\ table_exists(table_names[ti], CurPhase.source, txn)
    /\ conn' = [conn EXCEPT ![CurPhase.source] = "lost"]
    /\ TableReturns(FALSE, 1)
    /\ log' = IF pc = "table" THEN Append(log, <<pi, table_names[ti]>>) ELSE log
    /\ UNCHANGED <<direction, db, txn, success, result, pi, table_names, run,
                   pre, prev, env, caller, table_structure, create_query, stdout>>

NextEnv ==
    \/ lose_connection
    \/ lose_source_in_table
    \/ check_new_records_read_fails
    \/ sync_new_records_only_read_fails
    \/ run_sync

SpecEnv == InitEnv /\ [][NextEnv]_vars

----------------------------------------------------------------------------
\* run_sync is called again on the same DatabaseSyncer: nothing between
\* __init__ and the connect calls touches sync_stats.
run_sync_again ==
    /\ Restart
    /\ UNCHANGED <<sync_stats, stdout>>

NextReuse ==
    \/ run_sync
    \/ run_sync_again

SpecReuse == Init /\ [][NextReuse]_vars

----------------------------------------------------------------------------
\* One run of the program on databases that hold the association table
\* without id column and tables the dependency list does not name, of fewer
\* than MaxRows rows in all.
InitWide ==
    /\ \E n \in 0..(MaxRows - 1) : \E m \in 0..(MaxRows - 1 - n) :
         \E L \in {x \in WideDatabases : x[2] = n} :
           \E N \in {x \in WideDatabases : x[2] = m} :
             db = [e \in Endpoints |-> IF e = "Local" THEN L[1] ELSE N[1]]
    /\ direction \in Directions
    /\ pc = "connect"
    /\ env = RequiredEnv
    /\ Constructed
    /\ caller = NoCaller

SpecWide == InitWide /\ [][run_sync]_vars

----------------------------------------------------------------------------
\* The DDL builder of create_table_if_not_exists applied to the column
\* descriptions of a table of at most MaxColumns columns with distinct names.
InitDDL ==
    /\ db = [e \in Endpoints |-> [t \in Tables |-> Absent]]
    /\ direction \in Directions
    /\ pc = "create"
    /\ env = RequiredEnv
    /\ conn = [e \in Endpoints |-> "none"]
    /\ txn = db
    /\ sync_stats = NoStats
    /\ success = TRUE
    /\ result = FALSE
    /\ pi = 1
    /\ table_names = <<>>
    /\ ti = 1
    /\ data = <<>>
    /\ ri = 1
    /\ upsert = FALSE
    /\ counts = NoCounts
    /\ outcomes = <<>>
    /\ run = 1
    /\ pre = db
    /\ prev = [direction |-> "", connected |-> FALSE]
    /\ log = <<>>
    /\ stdout = <<>>
    /\ create_query = NoQuery
    /\ caller = NoCaller
    /\ \E n \in 1..MaxColumns :
         /\ table_structure \in [1..n -> ColumnDescriptions]
         /\ \A i, j \in 1..n :
                table_structure[i].column_name = table_structure[j].column_name
                    => i = j

\* create_table_if_not_exists: the loop over the column descriptions.
build_columns ==
    /\ pc = "create"
    /\ create_query' = build_create_query(table_structure)
    /\ pc' = "created"
    /\ UNCHANGED <<direction, conn, db, txn, sync_stats, success, result, pi,
                   table_names, ti, data, ri, upsert, counts, outcomes, run,
                   pre, prev, log, env, caller, stdout, table_structure>>

SpecDDL == InitDDL /\ [][build_columns]_vars

----------------------------------------------------------------------------
\* One run of the program with faults, in which every database call
\* returns and the single thread of run_sync goes on to its next statement.
SpecLive == InitEnv /\ [][NextEnv]_vars /\ WF_vars(run_sync)

\* main: the exit status of the process; -1 while it runs.  An uncaught
\* exception ends the interpreter with status 1.
exit_status ==
    IF pc = "aborted" THEN 1
    ELSE IF pc = "done" THEN (IF result THEN 0 ELSE 1)
    ELSE -1

----------------------------------------------------------------------------
\* main.py: run_database_sync starts the script before the application
\* starts, on databases of fewer than MaxRows - 1 rows.

\* timeout=300 of subprocess.run, in seconds.
SyncTimeout == 300

\* system_config._environment
Environments == {"local", "mirror", "render"}

InitCaller ==
    /\ \E L, N \in SizedDatabases :
         /\ L[2] + N[2] < MaxRows - 1
         /\ db = [e \in Endpoints |-> IF e = "Local" THEN L[1] ELSE N[1]]
    /\ direction \in Directions
    /\ pc = "idle"
    /\ env \in {RequiredEnv, RequiredEnv \ {"NEON_PASSWORD"}}
    /\ Constructed
    /\ \E environment \in Environments, script \in BOOLEAN :
         caller = [environment |-> environment, script |-> script,
                   at |-> "called", outcome |-> "", timeout |-> 0]

\* The variables of the script's process.
child == <<direction, pc, conn, db, txn, sync_stats, success, result, pi,
           table_names, ti, data, ri, upsert, counts, outcomes, run, pre, prev,
           log, env, stdout, table_structure, create_query>>

\* Mutant of is_local: the sync is started in every environment.
is_local_always == TRUE

\* app.config.is_local
is_local == caller.environment = "local"

\* run_database_sync returns without starting the script: the environment
\* is not local, or the script is not found.
skip_sync ==
    /\ caller.at = "called"
    /\ ~is_local \/ ~caller.script
    /\ caller' = [caller EXCEPT !.at = "returned", !.outcome = "skipped"]
    /\ UNCHANGED child

\* subprocess.run([sys.executable, sync_script, "--direction", "smart-sync"],
\* timeout=300): the process is started.
launch ==
    /\ caller.at = "called"
    /\ is_local
    /\ caller.script
    /\ caller' = [caller EXCEPT !.at = "waiting", !.timeout = SyncTimeout]
    /\ direction' = "smart-sync"
    /\ pc' = "start"
    /\ UNCHANGED <<conn, db, txn, sync_stats, success, result, pi, table_names,
                   ti, data, ri, upsert, counts, outcomes, run, pre, prev, log,
                   env, stdout, table_structure, create_query>>

\* subprocess.run raises (the interpreter cannot be executed): except
\* Exception logs and goes on.
launch_raises ==
    /\ caller.at = "called"
    /\ is_local
    /\ caller.script
    /\ caller' = [caller EXCEPT !.at = "returned", !.outcome = "exception"]
    /\ UNCHANGED child

\* The process has ended: subprocess.run returns its exit status.
child_exits ==
    /\ caller.at = "waiting"
    /\ pc \in {"done", "aborted"}
    /\ caller' = [caller EXCEPT
                    !.at = "returned",
                    !.outcome = IF exit_status = 0 THEN "completed" ELSE "failed"]
    /\ UNCHANGED child

\* The timeout expires while the process runs: subprocess.run kills it and
\* raises TimeoutExpired, which is caught.
timeout_expired ==
    /\ caller.at = "waiting"
    /\ pc \notin {"done", "aborted"}
    /\ pc' = "killed"
    /\ txn' = db
    /\ caller' = [caller EXCEPT !.at = "returned", !.outcome = "timeout"]
    /\ UNCHANGED <<direction, conn, db, sync_stats, success, result, pi,
                   table_names, ti, data, ri, upsert, counts, outcomes, run, pre,
                   prev, log, env, stdout, table_structure, create_query>>

\* The steps of run_database_sync.
run_database_sync ==
    \/ skip_sync
    \/ launch
    \/ launch_raises
    \/ child_exits
    \/ timeout_expired

NextCaller ==
    \/ run_database_sync
    \/ construct
    \/ run_sync

\* The caller's thread runs and its clock advances; the script's database
\* calls may block for ever.
SpecCaller == InitCaller /\ [][NextCaller]_vars /\ WF_vars(run_database_sync)

TypeOK ==
    /\ direction \in Directions
    /\ pc \in {"start", "aborted", "connect", "phase", "table", "new", "rows",
               "done", "create", "created", "idle", "killed"}
    /\ conn \in [Endpoints -> {"none", "open", "lost", "closed"}]
    /\ txn = db

----------------------------------------------------------------------------
\* Properties

\* run_sync returned after both connections were made and the phases ran.
RanToEnd == pc = "done" /\ \A e \in Endpoints : conn[e] = "closed"

\* Position of table t in list s (0 when absent).
IndexOf(s, t) == IF \E i \in DOMAIN s : s[i] = t
                 THEN CHOOSE i \in DOMAIN s : s[i] = t
                 ELSE 0

\* C1: after a smart-sync run, for every table, the identifiers present at
\* the remote endpoint include every identifier that was present at the
\* local endpoint before the run began.
C1_SupersetAfterSmartSync ==
    (RanToEnd /\ direction = "smart-sync") =>
        \A t \in Tables : IdsOf(pre["Local"][t]) \subseteq IdsOf(db["Neon"][t])

\* C2: a full sync run a second time from an unchanged source leaves every
\* table that has an id column with the row count it had after the first
\* run, whether the target table existed before the first run or not.
C2_FullSyncIdempotent ==
    (/\ RanToEnd
     /\ run = 2
     /\ prev.connected
     /\ direction \in {"local-to-neon", "neon-to-local"}) =>
        LET s == Phases(direction)[1].source
            g == Phases(direction)[1].target
        IN  \A t \in Tables :
                (db[s][t].exists /\ has_id_column(Columns(t))) =>
                    BagCardinality(db[g][t].rows) = BagCardinality(pre[g][t].rows)

\* C3: whenever a table B of the ordered list declares a foreign key to a
\* table A of the ordered list, both named in the dependency list, A comes
\* before B in the ordered list of the phase.
C3_DependencyOrdering ==
    \A fk \in ForeignKeys :
        (/\ {fk[1], fk[2]} \subseteq SeqToSet(dependency_order)
         /\ {fk[1], fk[2]} \subseteq SeqToSet(table_names)) =>
            IndexOf(table_names, fk[2]) < IndexOf(table_names, fk[1])

\* The rows of data whose write succeeded, as a bag.
RECURSIVE WrittenBag(_, _, _)
WrittenBag(d, oks, n) ==
    IF n = 0 THEN EmptyBag
    ELSE WrittenBag(d, oks, n - 1)
         (+) (IF oks[n] THEN SetToBag({d[n]}) ELSE EmptyBag)

\* C4: in an incremental sync of a table with an id column that exists on
\* both sides, the rows handed to the writer are exactly the source rows
\* whose id is absent from the target, every row the target already had is
\* unchanged, and the target holds its old rows plus the rows written.
C4_NewRecordsOnly ==
    (pc = "rows" /\ CurPhase.kind = "new") =>
        LET t == table_names[ti]
            s == CurPhase.source
            g == CurPhase.target
            before == pre[g][t]
            absent == {r \in DOMAIN db[s][t].rows : r.id \notin IdsOf(before)}
        IN  (before.exists /\ db[s][t].exists /\ has_id_column(Columns(t))) =>
                /\ SeqToSet(data) = absent
                /\ \A r \in absent :
                       Cardinality({i \in DOMAIN data : data[i] = r}) = db[s][t].rows[r]
                /\ \A r \in DOMAIN before.rows :
                       /\ r \in DOMAIN db[g][t].rows
                       /\ db[g][t].rows[r] = before.rows[r]
                /\ db[g][t].rows =
                       before.rows (+) WrittenBag(data, outcomes, Len(outcomes))

\* C4 witness: the target had rows, the source had rows of the same ids and
\* new ones, and all the new rows have been written.
C4_Witness ==
    /\ pc = "rows"
    /\ CurPhase.kind = "new"
    /\ ri > Len(data)
    /\ counts.inserted_count >= 1
    /\ LET t == table_names[ti]
       IN  /\ pre[CurPhase.target][t].exists
           /\ IdsOf(pre[CurPhase.target][t]) \cap IdsOf(db[CurPhase.source][t]) # {}

\* C5: in a full sync every row of the table is attempted; a row the target
\* rejects adds one to the error count and nothing else, a row it accepts adds
\* one to the inserted count; the counts are added to the statistics, the
\* table counts as synced and the next table of the list follows.
C5_PartialFailureIsolation ==
    [][ (pc = "rows" /\ CurPhase.kind = "full") =>
          LET g == CurPhase.target
              t == table_names[ti]
          IN  /\ (ri <= Len(data)) =>
                    LET rejected == ~ApplyInsert(txn[g], t, data[ri], upsert).ok
                    IN  /\ pc' = "rows" /\ ri' = ri + 1 /\ data' = data
                        /\ rejected =>
                             /\ counts' = [counts EXCEPT !.error_count = @ + 1]
                             /\ db' = db
                        /\ ~rejected =>
                             /\ counts' = [counts EXCEPT !.inserted_count = @ + 1]
                             /\ data[ri] \in DOMAIN db'[g][t].rows
              /\ (ri > Len(data)) =>
                    /\ counts.inserted_count + counts.error_count = Len(data)
                    /\ sync_stats' =
                         [tables_synced |-> sync_stats.tables_synced + 1,
                          records_synced |->
                              sync_stats.records_synced + counts.inserted_count,
                          errors |-> sync_stats.errors + counts.error_count]
                    /\ pc' = "table" /\ ti' = ti + 1 /\ table_names' = table_names
      ]_vars

\* C5 witness: the first table of a full sync counted an error and was
\* counted as synced, and the rows of the second table are being written.
C5_Witness ==
    /\ direction = "local-to-neon"
    /\ pc = "rows"
    /\ ti = 2
    /\ sync_stats.errors >= 1
    /\ sync_stats.tables_synced = 1

\* C6: each write of the row loop leaves nothing uncommitted; a row that was
\* written is in the stored table at once; a failed row leaves the target
\* database as it was, with the rows written before it still stored, and
\* the loop goes on to the next row.
C6_CommitPerRow ==
    [][ (pc = "rows" /\ ri <= Len(data)) =>
          LET g == CurPhase.target
              t == table_names[ti]
          IN  /\ txn'[g] = db'[g]
              /\ outcomes'[ri] => data[ri] \in DOMAIN db'[g][t].rows
              /\ ~outcomes'[ri] => db'[g] = db[g]
              /\ \A i \in 1..(ri - 1) :
                     outcomes[i] => data[i] \in DOMAIN db'[g][t].rows
              /\ pc' = "rows" /\ ri' = ri + 1 /\ data' = data
      ]_vars

\* C6 witness: the first row was written, the second failed, and the first
\* is stored.
C6_Witness ==
    /\ pc = "rows"
    /\ Len(outcomes) >= 2
    /\ outcomes[1]
    /\ ~outcomes[2]
    /\ data[1] \in DOMAIN db[CurPhase.target][table_names[ti]].rows

\* C7: when a connection could not be made, run_sync returns False, no
\* phase has run, both databases are as they were and the counters are zero.
C7_ConnectionFailureFatal ==
    (pc = "done" /\ \E e \in Endpoints : conn[e] = "none") =>
        /\ ~result
        /\ log = <<>>
        /\ db = pre
        /\ txn = db
        /\ sync_stats = NoStats

\* C7 witness: the local connection was made, the remote one failed, and
\* run_sync has returned.
C7_Witness ==
    /\ pc = "done"
    /\ conn["Local"] = "open"
    /\ conn["Neon"] = "none"
    /\ \E t \in Tables : db["Local"][t].rows # EmptyBag

\* C8: whenever run_sync has returned, no connection is open.
C8_UnconditionalTeardown ==
    pc = "done" => \A e \in Endpoints : conn[e] # "open"

\* C9: in a smart-sync run the local database changes only in phase 1 and
\* the remote database only in phase 2, the phases never go back, and the
\* run ends only after phase 1 and then phase 2 were started, whatever
\* phase 1 returned or counted.
C9_SmartSyncPhaseOrder ==
    [][ (direction = "smart-sync" /\ pc # "done") =>
          /\ db'["Local"] # db["Local"] =>
                 pi = 1 /\ CurPhase = Phase("new", "Neon", "Local")
          /\ db'["Neon"] # db["Neon"] =>
                 pi = 2 /\ CurPhase = Phase("full", "Local", "Neon")
          /\ pi' >= pi
          /\ (pc = "phase" /\ pc' = "done") =>
                 \E i, j \in DOMAIN log :
                     i < j /\ log[i] = <<1, "">> /\ log[j] = <<2, "">>
      ]_vars

\* C9 witness: phase 1 found no table and returned failure, and phase 2
\* has written to the remote database.
C9_Witness ==
    /\ RanToEnd
    /\ direction = "smart-sync"
    /\ ~result
    /\ db["Neon"] # pre["Neon"]

\* C10: after a smart-sync run that counted no error, for every table the
\* remote side holds with its primary key and every id present on both sides
\* before the run, the remote row is the local row of before the run and the
\* local row is unchanged.
C10_LocalAuthoritative ==
    (RanToEnd /\ direction = "smart-sync" /\ sync_stats.errors = 0) =>
        \A t \in Tables :
            (pre["Neon"][t].exists /\ pre["Neon"][t].constraints
             /\ pre["Local"][t].exists /\ has_id_column(Columns(t))) =>
                \A r \in DOMAIN pre["Local"][t].rows :
                    r.id \in IdsOf(pre["Neon"][t]) =>
                        /\ SameId(db["Neon"][t], r) = {r}
                        /\ SameId(db["Local"][t], r) = SameId(pre["Local"][t], r)

\* C10 witness: a row of the same id had different contents on the two sides
\* before a smart-sync run that ended without error.
C10_Witness ==
    /\ RanToEnd
    /\ direction = "smart-sync"
    /\ sync_stats.errors = 0
    /\ \E t \in Tables :
         /\ pre["Neon"][t].constraints
         /\ \E r \in DOMAIN pre["Local"][t].rows :
              \E q \in DOMAIN pre["Neon"][t].rows : r.id = q.id /\ r.val # q.val

\* The rows of a table, as a set.
RowSet(T) == BagToSet(T.rows)

\* C11: after a smart-sync run and after a both run that counted no error,
\* every table with an id column holds the same set of rows at the local
\* and at the remote endpoint.
C11_Convergence ==
    (/\ RanToEnd
     /\ direction \in {"smart-sync", "both"}
     /\ sync_stats.errors = 0) =>
        \A t \in Tables :
            has_id_column(Columns(t)) =>
                RowSet(db["Local"][t]) = RowSet(db["Neon"][t])

\* Phase i of the run obtained a table list that was not empty.
FoundTables(i) == \E j \in DOMAIN log : log[j][1] = i /\ log[j][2] \in Tables

\* Both connect calls of the run succeeded.
Connected == \A e \in Endpoints : conn[e] # "none"

\* C12: when run_sync has returned after both connections were made and
\* every phase of the direction found at least one table, it returned True
\* and the exit status is 0, whatever the error counter; the exit status is
\* 1 exactly when run_sync returned False.
C12_ErrorsNeverFailTheRun ==
    pc = "done" =>
        /\ (Connected /\ \A i \in DOMAIN Phases(direction) : FoundTables(i)) =>
               result /\ exit_status = 0
        /\ exit_status = 1 <=> ~result
        /\ exit_status = 0 <=> result

\* C12 witness: a run whose table creation failed and whose rows were
\* rejected has returned True.
C12_Witness ==
    /\ pc = "done"
    /\ result
    /\ exit_status = 0
    /\ sync_stats.errors >= 2
    /\ sync_stats.tables_synced >= 1

\* C13: when run_sync returns after the connection of an endpoint was lost
\* while a phase was executing, it returns False.
C13_SuccessImpliesNoConnectionFailure ==
    [][ (pc = "phase" /\ pc' = "done" /\ \E e \in Endpoints : conn[e] = "lost")
          => ~result' ]_vars

\* C14: a run that made both connections returns False exactly when one of
\* its phases obtained an empty table list, and every phase of the direction
\* was started, in order, whatever the phases before it obtained.
C14_CauseOfFailure ==
    (pc = "done" /\ Connected) =>
        /\ ~result <=> \E i \in DOMAIN Phases(direction) : ~FoundTables(i)
        /\ \A i \in DOMAIN Phases(direction) :
               \E j \in DOMAIN log : log[j] = <<i, "">>
        /\ \A j, k \in DOMAIN log : j < k => log[j][1] <= log[k][1]

\* C14 witness: the first of two phases found no table, the second found
\* tables and wrote rows, and the run returned False.
C14_Witness ==
    /\ pc = "done"
    /\ Connected
    /\ Len(Phases(direction)) = 2
    /\ ~FoundTables(1)
    /\ FoundTables(2)
    /\ sync_stats.records_synced >= 1
    /\ ~result

\* C15: sync_table and sync_new_records_only, called for a table that
\* table_exists does not find at the source, write nothing, create nothing,
\* leave the error counter and the record counter as they are, and the loop
\* goes on to the next table (sync_table's table counting as synced); the
\* ordered list of a phase holds exactly the catalog's tables that exist at
\* the source, and building it counts no error.
C15_SkipMissingTable ==
    [][ /\ ( /\ \/ pc = "table" /\ ti <= Len(table_names) /\ CurPhase.kind = "full"
                \/ pc = "new"
             /\ <<pc, ti>>' # <<pc, ti>>
             /\ ~table_exists(table_names[ti], CurPhase.source, txn) ) =>
               /\ db' = db
               /\ sync_stats'.errors = sync_stats.errors
               /\ sync_stats'.records_synced = sync_stats.records_synced
               /\ sync_stats'.tables_synced =
                      sync_stats.tables_synced
                      + (IF CurPhase.kind = "full" THEN 1 ELSE 0)
               /\ pc' = "table" /\ ti' = ti + 1
        /\ ( pc = "phase" /\ pi <= Len(Phases(direction))
             /\ <<pc, pi>>' # <<pc, pi>> ) =>
               /\ sync_stats' = sync_stats
               /\ SeqToSet(table_names') =
                      {t \in Tables : table_exists(t, CurPhase.source, txn)}
      ]_vars

\* C15 witness: the source connection was lost after the first phase listed
\* its tables; sync_table was called for the first table, whose rows the
\* source holds, and returned success with nothing written or counted.
C15_Witness ==
    /\ pc = "table"
    /\ pi = 1
    /\ CurPhase.kind = "full"
    /\ ti = 2
    /\ conn[CurPhase.source] = "lost"
    /\ pre[CurPhase.source][table_names[1]].rows # EmptyBag
    /\ log = << <<1, "">>, <<1, table_names[1]>> >>
    /\ db = pre
    /\ sync_stats = [tables_synced |-> 1, records_synced |-> 0, errors |-> 0]

\* C16: when a full sync in one direction is run a second time from an
\* unchanged source, every target table without a primary key (a table the
\* first run created) receives each source row again by a plain insert: its
\* row count grows by the source's row count and is twice the count after
\* the first run.
C16_FallbackInsertDuplicates ==
    (/\ RanToEnd
     /\ run = 2
     /\ prev.connected
     /\ direction \in {"local-to-neon", "neon-to-local"}) =>
        LET s == Phases(direction)[1].source
            g == Phases(direction)[1].target
        IN  \A t \in Tables :
                (db[s][t].exists /\ pre[g][t].exists /\ ~pre[g][t].constraints) =>
                    /\ BagCardinality(db[g][t].rows) =
                           BagCardinality(pre[g][t].rows)
                           + BagCardinality(db[s][t].rows)
                    /\ BagCardinality(db[g][t].rows) =
                           2 * BagCardinality(pre[g][t].rows)
                    /\ \A r \in DOMAIN db[s][t].rows : db[g][t].rows[r] = 2

\* C16 witness: the second local-to-neon run has ended and a remote table
\* without primary key holds each of the two or more local rows twice.
C16_Witness ==
    /\ RanToEnd
    /\ run = 2
    /\ prev.connected
    /\ direction = "local-to-neon"
    /\ \E t \in Tables :
         /\ ~db["Neon"][t].constraints
         /\ BagCardinality(db["Local"][t].rows) >= 2
         /\ BagCardinality(db["Neon"][t].rows) =
                2 * BagCardinality(db["Local"][t].rows)

\* C17: when a required remote variable is not set, the process ends in
\* the constructor: no connection was attempted on either endpoint, no
\* phase ran, nothing was written, counted or printed, and the exit status
\* is not zero.
C17_ConfigurationFailureFirst ==
    (~(RequiredEnv \subseteq env) /\ pc # "start") =>
        /\ pc = "aborted"
        /\ \A e \in Endpoints : conn[e] = "none"
        /\ log = <<>>
        /\ db = pre
        /\ sync_stats = NoStats
        /\ stdout = <<>>
        /\ exit_status = 1

\* C17 witness: only NEON_PASSWORD is missing, the databases hold rows and
\* the process has ended.
C17_Witness ==
    /\ pc = "aborted"
    /\ env = RequiredEnv \ {"NEON_PASSWORD"}
    /\ \E t \in Tables : db["Local"][t].rows # EmptyBag

\* C18: when run_sync has returned, the process has printed exactly one
\* line, the final status line of the value returned.
C18_OneFinalStatusLine ==
    pc = "done" => stdout = <<status_line(result)>>

\* C19: no statement leaves a connection in aborted-transaction state; a
\* write of the row loop on an open connection leaves the connection open
\* with nothing uncommitted, and whether the row is accepted depends on the
\* stored table and the row alone, not on the failures before it; a failed
\* write is counted, not raised.
C19_NoPoisonedConnection ==
    [][ /\ \A e \in Endpoints : conn'[e] # "aborted"
        /\ (pc = "rows" /\ ri <= Len(data) /\ ri' # ri) =>
              LET g == CurPhase.target
                  t == table_names[ti]
              IN  /\ conn[g] = "open" =>
                        /\ conn'[g] = "open"
                        /\ txn'[g] = db'[g]
                        /\ outcomes'[ri] = ApplyInsert(db[g], t, data[ri], upsert).ok
                  /\ conn[g] # "open" => ~outcomes'[ri] /\ db' = db
                  /\ pc' = "rows"
      ]_vars

\* C19 witness: a row of the first table was rejected, and after it a row
\* of the second table was written on the same open connection.
C19_Witness ==
    /\ pc = "rows"
    /\ ti = 2
    /\ sync_stats.errors >= 1
    /\ sync_stats.records_synced = 0
    /\ outcomes = <<TRUE>>
    /\ conn[CurPhase.target] = "open"

\* C20: every call of run_sync starts with the counters at zero.
C20_StatisticsPerRun ==
    pc = "connect" => sync_stats = NoStats

\* The entries of the log that record the start of a phase.
PhaseStarts == SelectSeq(log, LAMBDA x : x[2] = "")

\* C21: a local-to-neon run is one full sync from local to remote, a
\* neon-to-local run is one full sync from remote to local, and a both run
\* is the full sync from local to remote followed by the full sync from
\* remote to local: the remote database changes only in the push and the
\* local one only in the pull, the phases never go back, and the run ends
\* only after each phase of the direction was started once, in order,
\* whatever the phase before it returned.
C21_DirectionDispatch ==
    [][ (direction \in {"local-to-neon", "neon-to-local", "both"} /\ pc # "done") =>
          LET push == Phase("full", "Local", "Neon")
              pull == Phase("full", "Neon", "Local")
          IN  /\ direction = "local-to-neon" => Phases(direction) = <<push>>
              /\ direction = "neon-to-local" => Phases(direction) = <<pull>>
              /\ direction = "both" => Phases(direction) = <<push, pull>>
              /\ db'["Neon"] # db["Neon"] => pi = 1 /\ CurPhase = push
              /\ db'["Local"] # db["Local"] =>
                     pi = Len(Phases(direction)) /\ CurPhase = pull
              /\ pi' >= pi
              /\ (pc = "phase" /\ pc' = "done") =>
                     PhaseStarts = [i \in DOMAIN Phases(direction) |-> <<i, "">>]
      ]_vars

\* C21 witness: in a both run the push found no table and returned
\* failure, and the pull then wrote to the local database.
C21_Witness ==
    /\ RanToEnd
    /\ direction = "both"
    /\ ~FoundTables(1)
    /\ FoundTables(2)
    /\ db["Local"] # pre["Local"]
    /\ db["Neon"] = pre["Neon"]

\* C22: no step of sync_table, sync_new_records_only or the row loop
\* changes the database of the phase's source, in its stored contents or in
\* its transaction; the remote database is as it was at the start of the
\* run throughout phase 1 of smart-sync and throughout a neon-to-local run,
\* and the local database throughout a local-to-neon run.
C22_OnlyTargetWritten ==
    [][ /\ (pc \in {"table", "new", "rows"}) =>
              /\ db'[CurPhase.source] = db[CurPhase.source]
              /\ txn'[CurPhase.source] = txn[CurPhase.source]
        /\ direction' = "local-to-neon" => db'["Local"] = pre'["Local"]
        /\ direction' = "neon-to-local" => db'["Neon"] = pre'["Neon"]
        /\ (direction' = "smart-sync" /\ pi' = 1) => db'["Neon"] = pre'["Neon"]
      ]_vars

\* C22 witness: a neon-to-local run has created a local table and written
\* rows to it, and the remote database is as it was.
C22_Witness ==
    /\ direction = "neon-to-local"
    /\ pc = "rows"
    /\ counts.inserted_count >= 1
    /\ ~pre["Local"][table_names[ti]].exists
    /\ db["Local"][table_names[ti]].rows # EmptyBag
    /\ db["Neon"] = pre["Neon"]

\* C25: a write of the row loop to a target table with an id column and a
\* primary key is rejected only for a constraint other than the key; once
\* accepted, the table holds exactly one row of the incoming id, the
\* incoming row, and every row of another id as before: the row count is
\* unchanged when the id existed and one more when it did not.
C25_UpsertSemantics ==
    [][ (pc = "rows" /\ ri <= Len(data) /\ upsert /\ ri' # ri) =>
          LET g == CurPhase.target
              t == table_names[ti]
              row == data[ri]
              old == db[g][t]
              new == db'[g][t]
              rest == [r \in (DOMAIN old.rows) \ SameId(old, row) |-> old.rows[r]]
          IN  /\ outcomes'[ri] <=> ~Violates(db[g], t, row, rest)
              /\ outcomes'[ri] =>
                   /\ SameId(new, row) = {row}
                   /\ new.rows[row] = 1
                   /\ \A r \in DOMAIN rest :
                          r \in DOMAIN new.rows /\ new.rows[r] = old.rows[r]
                   /\ BagCardinality(new.rows) =
                          BagCardinality(old.rows)
                          + (IF row.id \in IdsOf(old) THEN 0 ELSE 1)
      ]_vars

\* C25 witness: of the rows written to a target table with primary key, one
\* replaced a row of the same id and other contents and one had a new id.
C25_Witness ==
    /\ pc = "rows"
    /\ upsert
    /\ LET before == pre[CurPhase.target][table_names[ti]]
       IN  /\ \E i \in DOMAIN outcomes :
                /\ outcomes[i]
                /\ data[i].id \in IdsOf(before)
                /\ data[i] \notin RowSet(before)
           /\ \E j \in DOMAIN outcomes :
                outcomes[j] /\ data[j].id \notin IdsOf(before)

\* The other endpoint.
Other(e) == IF e = "Local" THEN "Neon" ELSE "Local"

\* C29: a table that the run created at an endpoint carries its primary
\* key whenever the table of the other endpoint, from which it was created,
\* carries one.
C29_CreatedTableKeepsPrimaryKey ==
    \A e \in Endpoints : \A t \in Tables :
        (db[e][t].exists /\ ~pre[e][t].exists /\ db[Other(e)][t].constraints) =>
            db[e][t].constraints

\* C24: when sync_table or sync_new_records_only is called for a table that
\* exists at the source and the table's description comes back empty (the
\* source connection went away inside the call) or the target table cannot
\* be created (the target connection is not usable), the call adds one to
\* the error counter and nothing else: no database changes, the table is
\* not counted as synced, the loop goes on to the next table, and neither
\* the rest of the table loop nor its end changes the phase's result.
C24_TableFailureIsolation ==
    [][ /\ ( /\ \/ pc = "table" /\ ti <= Len(table_names) /\ CurPhase.kind = "full"
                \/ pc = "new"
             /\ <<pc, ti>>' # <<pc, ti>>
             /\ table_exists(table_names[ti], CurPhase.source, txn)
             /\ \/ conn'[CurPhase.source] = "lost"
                \/ ~Usable(CurPhase.target) ) =>
               /\ sync_stats' = [sync_stats EXCEPT !.errors = @ + 1]
               /\ db' = db
               /\ pc' = "table" /\ ti' = ti + 1
               /\ table_names' = table_names /\ pi' = pi
        /\ (pc \in {"table", "new", "rows"}) => success' = success
        /\ (pc = "table" /\ pi' # pi) => pc' = "phase" /\ pi' = pi + 1
      ]_vars

\* C24 witness: the first table of a full sync holds rows at the source; the
\* target connection was lost, the creation of the target table failed, one
\* error and no table were counted, nothing was written and the loop is at
\* the second table.
C24_Witness ==
    /\ pc = "table"
    /\ pi = 1
    /\ CurPhase.kind = "full"
    /\ ti = 2
    /\ Len(table_names) = 2
    /\ conn[CurPhase.target] = "lost"
    /\ conn[CurPhase.source] = "open"
    /\ pre[CurPhase.source][table_names[1]].rows # EmptyBag
    /\ ~pre[CurPhase.target][table_names[1]].exists
    /\ db = pre
    /\ sync_stats = [tables_synced |-> 0, records_synced |-> 0, errors |-> 1]

\* C28: throughout the incremental phase, also when reads of the target
\* fail, no row is written whose id the target held before the run, and
\* every row the target held before the run is stored unchanged.
C28_FailedReadNoOverwrite ==
    (pc \in {"table", "new", "rows"} /\ pi <= Len(Phases(direction))
     /\ CurPhase.kind = "new") =>
        LET g == CurPhase.target
        IN  /\ pc = "rows" =>
                 \A i \in DOMAIN outcomes :
                     outcomes[i] =>
                         data[i].id \notin IdsOf(pre[g][table_names[ti]])
            /\ \A t \in Tables : \A r \in DOMAIN pre[g][t].rows :
                   /\ r \in DOMAIN db[g][t].rows
                   /\ db[g][t].rows[r] = pre[g][t].rows[r]

\* The tables the dependency list names.
Listed == SeqToSet(dependency_order)

IdLess(t) == \A i \in DOMAIN Columns(t) : Columns(t)[i] # "id"

\* C27: for a table without id column get_new_records returns no row,
\* whatever the two endpoints hold; the incremental phase never calls
\* sync_new_records_only or the writer for it, and leaves the target's
\* table as it was before the run.
C27_NoIdNoNewRecords ==
    /\ \A t \in Tables : \A e \in Endpoints :
           IdLess(t) => get_new_records(t, e, Other(e), txn) = {<<>>}
    /\ (pc \in {"table", "new", "rows"} /\ CurPhase.kind = "new") =>
           /\ pc \in {"new", "rows"} => ~IdLess(table_names[ti])
           /\ \A t \in Tables :
                  IdLess(t) => db[CurPhase.target][t] = pre[CurPhase.target][t]

\* C27 witness: the incremental phase has passed the association table,
\* which held a row at the source and another row at the target.
C27_Witness ==
    /\ pc = "table"
    /\ CurPhase.kind = "new"
    /\ \E i \in DOMAIN log : log[i] = <<pi, "information_information_tags">>
    /\ LET S == RowSet(db[CurPhase.source]["information_information_tags"])
           G == RowSet(db[CurPhase.target]["information_information_tags"])
       IN  S # {} /\ G # {} /\ S # G

\* C26: when phase 1 of smart-sync has ended and no error was counted,
\* every row that a table of the remote database held before the run is
\* present in the local table: by its id for a table with an id column, as
\* the row itself for a table without.
C26_PhaseOneCompleteness ==
    (direction = "smart-sync" /\ pc = "phase" /\ pi = 2
     /\ sync_stats.errors = 0) =>
        \A t \in Tables : \A r \in RowSet(pre["Neon"][t]) :
            IF IdLess(t)
            THEN r \in RowSet(db["Local"][t])
            ELSE r.id \in IdsOf(db["Local"][t])

\* The column's default draws from a sequence.
SequenceBacked(col) == ContainsNextval(col.column_default)

\* C30: in the column definitions built for a new table, a column whose
\* default draws from a sequence has an auto-increment type and no default
\* clause, and every other column has its declared type, NOT NULL exactly
\* when it is not nullable, and its default expression.
C30_SequenceDefaultsRewritten ==
    pc = "created" =>
        /\ DOMAIN create_query.columns = DOMAIN table_structure
        /\ \A i \in DOMAIN table_structure :
               LET col == table_structure[i]
                   def == create_query.columns[i]
               IN  /\ def.column_name = col.column_name
                   /\ IF SequenceBacked(col)
                      THEN /\ def.type \in {"SMALLSERIAL", "SERIAL", "BIGSERIAL"}
                           /\ def.default = ""
                      ELSE /\ def.type = col.data_type
                           /\ def.not_null = (col.is_nullable = "NO")
                           /\ def.default = col.column_default

\* C31: no step drops a table, removes an id from a table or lowers a
\* table's number of rows, at either endpoint; and when a run of one full
\* sync returns with no error counted, every id of a source table is in the
\* target table, the source being as it was.
C31_NothingDeleted ==
    [][ /\ \A e \in Endpoints : \A t \in Tables :
              /\ db[e][t].exists => db'[e][t].exists
              /\ IdsOf(db[e][t]) \subseteq IdsOf(db'[e][t])
              /\ BagCardinality(db[e][t].rows) <= BagCardinality(db'[e][t].rows)
        /\ (pc = "phase" /\ pc' = "done" /\ sync_stats.errors = 0
            /\ direction \in {"local-to-neon", "neon-to-local"}) =>
              LET s == Phases(direction)[1].source
                  g == Phases(direction)[1].target
              IN  /\ db[s] = pre[s]
                  /\ \A t \in Tables : IdsOf(db[s][t]) \subseteq IdsOf(db[g][t])
      ]_vars

\* C31 witness: before a local-to-neon run the remote table held a row that
\* the local table lacks and lacked a row that the local table holds; after
\* the run the remote table holds both and the local table is as it was.
C31_Witness ==
    /\ RanToEnd
    /\ direction = "local-to-neon"
    /\ \E t \in Tables :
         /\ IdsOf(pre["Neon"][t]) \ IdsOf(pre["Local"][t]) # {}
         /\ IdsOf(pre["Local"][t]) \ IdsOf(pre["Neon"][t]) # {}
         /\ IdsOf(pre["Local"][t]) \cup IdsOf(pre["Neon"][t])
                \subseteq IdsOf(db["Neon"][t])
    /\ db["Local"] = pre["Local"]

\* C32: while run_sync executes no counter decreases; insert_data starts
\* with both its counts at zero, each row of its list is written once and
\* adds one to exactly one count (inserted when the write succeeded, error
\* when it failed); when the list is exhausted the two counts sum to the
\* number of rows handed over and are added to records_synced and errors;
\* no other step changes records_synced, and any other step adds at most
\* one table-level error.
C32_CounterAccounting ==
    [][ /\ pc # "done" =>
              /\ sync_stats.tables_synced <= sync_stats'.tables_synced
              /\ sync_stats.records_synced <= sync_stats'.records_synced
              /\ sync_stats.errors <= sync_stats'.errors
        /\ (pc # "rows" /\ pc' = "rows") =>
              /\ counts' = NoCounts /\ ri' = 1 /\ data' # <<>>
              /\ sync_stats' = sync_stats
        /\ (pc = "rows" /\ ri' # ri) =>
              /\ ri <= Len(data) /\ ri' = ri + 1 /\ data' = data
              /\ counts' = IF outcomes'[ri]
                           THEN [counts EXCEPT !.inserted_count = @ + 1]
                           ELSE [counts EXCEPT !.error_count = @ + 1]
              /\ sync_stats' = sync_stats
        /\ (pc = "rows" /\ pc' # "rows") =>
              /\ ri = Len(data) + 1
              /\ counts.inserted_count + counts.error_count = Len(data)
              /\ sync_stats'.records_synced =
                     sync_stats.records_synced + counts.inserted_count
              /\ sync_stats'.errors = sync_stats.errors + counts.error_count
        /\ (pc \notin {"rows", "done"}) =>
              /\ sync_stats'.records_synced = sync_stats.records_synced
              /\ sync_stats'.errors \in {sync_stats.errors, sync_stats.errors + 1}
      ]_vars

\* C32 witness: insert_data has returned for a list of which one row was
\* written and one was rejected, and the statistics hold one record and one
\* error.
C32_Witness ==
    /\ pc = "table"
    /\ Len(data) = 2
    /\ counts = [inserted_count |-> 1, error_count |-> 1]
    /\ sync_stats.records_synced = 1
    /\ sync_stats.errors = 1

\* C33: the rows a full sync writes to the target are in ascending order
\* of their first column (the id, when the table has one), and the order
\* is the only one the read of the source can return for the source's
\* contents.
C33_DeterministicRowOrder ==
    (pc = "rows" /\ CurPhase.kind = "full") =>
        /\ \A i, j \in DOMAIN data : i < j => data[i].id <= data[j].id
        /\ get_table_data(table_names[ti], CurPhase.source, txn) = {data}

\* The tables that phase i has attempted, in the order of the attempts.
Attempted(i) ==
    LET entries == SelectSeq(log, LAMBDA x : x[1] = i /\ x[2] # "")
    IN  [k \in DOMAIN entries |-> entries[k][2]]

\* The phases whose table loop has ended hold every table of their list
\* once, in list order; the phase in execution holds the tables up to the
\* one at hand.
AttemptedInOrder ==
    (pc \in {"table", "new", "rows"}) =>
        /\ ti <= Len(table_names) + 1
        /\ Attempted(pi) =
               SubSeq(table_names, 1, IF pc = "table" THEN ti - 1 ELSE ti)

\* C34: every call of run_sync returns, with True or with False; and in
\* every phase it executes, each table of the phase's ordered list is
\* attempted once, in list order, whatever happened to the tables before it.
C34_TerminationAndCoverage ==
    /\ []AttemptedInOrder
    /\ [][(pc = "table" /\ pc' = "phase") => Attempted(pi) = table_names]_vars
    /\ <>(pc = "done" /\ result \in BOOLEAN)

\* C34 witness: run_sync has returned from a one-phase run whose first
\* table failed and whose second table was attempted after it.
C34_Witness ==
    /\ pc = "done"
    /\ Len(Phases(direction)) = 1
    /\ sync_stats.errors >= 1
    /\ sync_stats.tables_synced = 1
    /\ Attempted(1) = <<"information_infostocks", "information_infostockstype">>

\* C35: run_database_sync starts the script only in the local environment
\* and only when the script is found, with direction smart-sync and a
\* timeout of 300 seconds; it always returns: with the script not started
\* when the environment is not local, the script is missing or
\* subprocess.run raised, after the script's exit with status 0 or not 0,
\* or at the timeout with the script killed.
C35_CallerNeverBlocks ==
    /\ [](pc # "idle" =>
            /\ caller.environment = "local"
            /\ caller.script
            /\ direction = "smart-sync"
            /\ caller.timeout = 300)
    /\ [](caller.at = "returned" =>
            /\ caller.outcome \in
                   {"skipped", "exception", "completed", "failed", "timeout"}
            /\ caller.outcome \in {"skipped", "exception"} <=> pc = "idle"
            /\ caller.outcome = "completed" <=> exit_status = 0
            /\ caller.outcome = "failed" <=> exit_status = 1
            /\ caller.outcome = "timeout" <=> pc = "killed")
    /\ <>(caller.at = "returned")

\* C35 witness: the timeout expired after the script had written to a
\* database, and run_database_sync has returned.
C35_Witness ==
    /\ caller.at = "returned"
    /\ caller.outcome = "timeout"
    /\ pc = "killed"
    /\ db # pre
====
